---- MODULE Spec2Model ----
(***************************************************************************)
(* Model of src/ffmpeg-utils.js: the registry of streams (activeStreams),  *)
(* the StreamState objects, the ffmpeg child processes they spawn, the     *)
(* reconnect timers armed by the 'close' handler and the grace timers      *)
(* armed by stopStream.                                                    *)
(*                                                                         *)
(* JavaScript runs every callback to completion, so each handler is one    *)
(* atomic action.  A child process counts as alive until its 'close'       *)
(* event has been delivered: that event is the only exit notification the  *)
(* code listens to.  ChildProcess.kill(sig) on a process that is alive     *)
(* delivers sig and sets .killed; on a process that has exited it sends    *)
(* nothing, returns false and leaves .killed alone.                        *)
(***************************************************************************)
EXTENDS Integers, Sequences, FiniteSets, TLC

VARIABLES
  activeStreams,  \* the Map: stream id -> index of its StreamState, 0 = no entry
  streams,        \* the StreamState objects ever created, in creation order
  procs,          \* procs[s]: the child processes spawned for StreamState s
  killTimeout,    \* killTimeout[s]: the grace timer armed by stopStream on s
  stopRecorded,   \* history: stopRecorded[s] once a stop set s to 'stopped'
  started,        \* history: the ids passed to startStream so far
  ret             \* the call made by the last step and what it returned

vars == <<activeStreams, streams, procs, killTimeout, stopRecorded, started, ret>>

----------------------------------------------------------------------------
(* Bounds of the model *)

\* The retry limit.  The source sets it to 10; the code depends on it only
\* through the comparison in the 'close' handler, and the model is checked
\* with a smaller limit.
MAX_RECONNECT_ATTEMPTS == 2

NumIds == 2       \* stream ids the callers use
MaxStates == 2    \* StreamState objects created in one run
MaxSpawns == 4    \* processes spawned for one StreamState

Ids == 1..NumIds

\* The trim window the callers pass: a 45 second clip.
Configs == { [startTime |-> 0, endTime |-> 45] }

\* The time=HH:MM:SS markers ffmpeg prints in this model.
ProgressTimes == { <<0, 1, 30>> }

ExitCodes == {0, 1}     \* 0, and one representative of every code !== 0

----------------------------------------------------------------------------
(* Child processes *)

NewProc ==
  [ alive      |-> TRUE,      \* 'close' not yet emitted
    killed     |-> FALSE,     \* ChildProcess.killed
    sigs       |-> {},        \* signals delivered to it
    late       |-> {},        \* history: signals kill() was asked for after it exited
    rtimer     |-> "none",    \* "armed" while the reconnect timer set by its
                              \* 'close' handler is pending
    progressed |-> FALSE ]    \* history: it is alive and has printed a time= marker

\* ChildProcess.kill(sig)
Kill(p, sig) ==
  IF p.alive THEN [p EXCEPT !.killed = TRUE, !.sigs = @ \cup {sig}]
             ELSE [p EXCEPT !.late = @ \cup {sig}]

\* Variant: the timer is not canceled.
ClearTimeout_Noop(p) == p

\* clearTimeout on a reconnect timer handle
ClearTimeout(p) ==
  [p EXCEPT !.rtimer = "none"]

NoGrace == [state |-> "none", on |-> 0]

\* Variant: stopStream kills at once.
StopSignal_Force == "SIGKILL"

\* the signal stopStream sends first
StopSignal == "SIGINT"

\* Date.now(): a logical clock, later than every startedAt recorded so far.
Now == Len(streams) + 1

Elapsed(t) == t[1] * 3600 + t[2] * 60 + t[3]

----------------------------------------------------------------------------
(* spawnFfmpeg *)

\* Variant: a relaunch counts as a fresh start.
SpawnFfmpeg_Restarts(st, k) ==
  [st EXCEPT !.process = k, !.status = "running", !.startedAt = Len(streams) + 1,
             !.reconnectAttempts = 0]

\* Variant: the new process is recorded but the status is left as it was.
SpawnFfmpeg_KeepsStatus(st, k) ==
  [st EXCEPT !.process = k]

\* streamState.process = proc; streamState.status = 'running'
SpawnFfmpeg(st, k) ==
  [st EXCEPT !.process = k, !.status = "running"]

\* Variant: the handler records the time but leaves the attempt counter alone.
OnProgress_NoReset(st, t) ==
  LET clipDuration == st.config.endTime - st.config.startTime
      st1 == [st EXCEPT !.stats.time = t]
  IN  IF st.config.endTime # 0 /\ clipDuration > 0
        THEN [st1 EXCEPT !.stats.loopCount = (Elapsed(t) \div clipDuration) + 1]
        ELSE st1

\* the stderr 'data' handler, for a chunk that carries time=t
OnProgress(st, t) ==
  LET clipDuration == st.config.endTime - st.config.startTime
      st1 == [st EXCEPT !.stats.time = t, !.reconnectAttempts = 0]
  IN  IF st.config.endTime # 0 /\ clipDuration > 0
        THEN [st1 EXCEPT !.stats.loopCount = (Elapsed(t) \div clipDuration) + 1]
        ELSE st1

\* Variant: the failure branch does not test that the status is 'running'.
OnClose_ReconnectsStopped(st, k, code) ==
  IF code # 0
    THEN IF st.reconnectAttempts < MAX_RECONNECT_ATTEMPTS
           THEN [ st  |-> [st EXCEPT !.reconnectAttempts = @ + 1,
                                     !.status = "reconnecting",
                                     !.reconnectTimer = k],
                  arm |-> TRUE ]
           ELSE [ st |-> [st EXCEPT !.status = "error"], arm |-> FALSE ]
    ELSE IF st.status = "running" /\ code = 0
           THEN [ st |-> [st EXCEPT !.status = "completed"], arm |-> FALSE ]
           ELSE [ st |-> st, arm |-> FALSE ]

\* Variant: the limit is compared with <= instead of <.
OnClose_OffByOne(st, k, code) ==
  IF st.status = "running" /\ code # 0
    THEN IF st.reconnectAttempts <= MAX_RECONNECT_ATTEMPTS
           THEN [ st  |-> [st EXCEPT !.reconnectAttempts = @ + 1,
                                     !.status = "reconnecting",
                                     !.reconnectTimer = k],
                  arm |-> TRUE ]
           ELSE [ st |-> [st EXCEPT !.status = "error"], arm |-> FALSE ]
    ELSE IF st.status = "running" /\ code = 0
           THEN [ st |-> [st EXCEPT !.status = "completed"], arm |-> FALSE ]
           ELSE [ st |-> st, arm |-> FALSE ]

\* Variant: the attempt counter is not incremented.
OnClose_NoIncrement(st, k, code) ==
  IF st.status = "running" /\ code # 0
    THEN IF st.reconnectAttempts < MAX_RECONNECT_ATTEMPTS
           THEN [ st  |-> [st EXCEPT !.status = "reconnecting",
                                     !.reconnectTimer = k],
                  arm |-> TRUE ]
           ELSE [ st |-> [st EXCEPT !.status = "error"], arm |-> FALSE ]
    ELSE IF st.status = "running" /\ code = 0
           THEN [ st |-> [st EXCEPT !.status = "completed"], arm |-> FALSE ]
           ELSE [ st |-> st, arm |-> FALSE ]

\* Variant: the success branch does not test that the status is 'running'.
OnClose_CompletesStopped(st, k, code) ==
  IF st.status = "running" /\ code # 0
    THEN IF st.reconnectAttempts < MAX_RECONNECT_ATTEMPTS
           THEN [ st  |-> [st EXCEPT !.reconnectAttempts = @ + 1,
                                     !.status = "reconnecting",
                                     !.reconnectTimer = k],
                  arm |-> TRUE ]
           ELSE [ st |-> [st EXCEPT !.status = "error"], arm |-> FALSE ]
    ELSE IF code = 0
           THEN [ st |-> [st EXCEPT !.status = "completed"], arm |-> FALSE ]
           ELSE [ st |-> st, arm |-> FALSE ]

\* the 'close' handler of process k of the stream; arm says whether it
\* scheduled a reconnect timer
OnClose(st, k, code) ==
  IF st.status = "running" /\ code # 0
    THEN IF st.reconnectAttempts < MAX_RECONNECT_ATTEMPTS
           THEN [ st  |-> [st EXCEPT !.reconnectAttempts = @ + 1,
                                     !.status = "reconnecting",
                                     !.reconnectTimer = k],
                  arm |-> TRUE ]
           ELSE [ st |-> [st EXCEPT !.status = "error"], arm |-> FALSE ]
    ELSE IF st.status = "running" /\ code = 0
           THEN [ st |-> [st EXCEPT !.status = "completed"], arm |-> FALSE ]
           ELSE [ st |-> st, arm |-> FALSE ]

\* the test the reconnect timer's callback makes before it respawns
TimerRespawns(st) == st.status = "reconnecting"

----------------------------------------------------------------------------
(* The public operations *)

NewStreamState(cfg) ==
  [ process           |-> 0,
    status            |-> "running",
    startedAt         |-> Now,
    reconnectAttempts |-> 0,
    reconnectTimer    |-> 0,
    stats             |-> [time |-> <<0, 0, 0>>, loopCount |-> 1],
    config            |-> cfg ]

\* Variant: stopStream only tests that the stream is known.
StopApplies_AnyKnown(id) == activeStreams[id] # 0

\* the guard of stopStream: the stream is known and not yet finished
StopApplies(id) ==
  /\ activeStreams[id] # 0
  /\ streams[activeStreams[id]].status \in {"running", "reconnecting"}

\* the guard of the kill in stopStream and stopAllStreams
Killable(s) ==
  /\ streams[s].process # 0
  /\ ~procs[s][streams[s].process].killed

\* Variant: the internal status is reported as it is.
GetStreamStatus_Raw(id) ==
  IF activeStreams[id] = 0
    THEN [ status |-> "not_found", stats |-> [x \in {} |-> 0] ]
    ELSE LET stream == streams[activeStreams[id]]
         IN  [ status           |-> stream.status,
               reconnecting     |-> stream.status = "reconnecting",
               reconnectAttempt |-> stream.reconnectAttempts,
               stats            |-> stream.stats ]

GetStreamStatus(id) ==
  IF activeStreams[id] = 0
    THEN [ status |-> "not_found", stats |-> [x \in {} |-> 0] ]
    ELSE LET stream == streams[activeStreams[id]]
         IN  [ status           |-> IF stream.status = "reconnecting"
                                      THEN "running" ELSE stream.status,
               reconnecting     |-> stream.status = "reconnecting",
               reconnectAttempt |-> stream.reconnectAttempts,
               stats            |-> stream.stats ]

\* which object the returned stats are: 0 is a fresh copy ({ ...stream.stats })
StatsRef(id) == 0

NoCall == [op |-> "none"]

----------------------------------------------------------------------------
(* Actions *)

Init ==
  /\ activeStreams = [id \in Ids |-> 0]
  /\ streams = <<>>
  /\ procs = <<>>
  /\ killTimeout = <<>>
  /\ stopRecorded = <<>>
  /\ started = {}
  /\ ret = NoCall

StartStream(id, cfg) ==
  /\ Len(streams) < MaxStates
  /\ activeStreams' = [activeStreams EXCEPT ![id] = Len(streams) + 1]
  /\ streams' = Append(streams, SpawnFfmpeg(NewStreamState(cfg), 1))
  /\ procs' = Append(procs, <<NewProc>>)
  /\ killTimeout' = Append(killTimeout, NoGrace)
  /\ stopRecorded' = Append(stopRecorded, FALSE)
  /\ started' = started \cup {id}
  /\ ret' = [op |-> "startStream", id |-> id, value |-> id]

\* stderr 'data' of process k of StreamState s, with a time= marker
Progress(s, k, t) ==
  /\ procs[s][k].alive
  /\ streams' = [streams EXCEPT ![s] = OnProgress(@, t)]
  /\ procs' = [procs EXCEPT ![s][k].progressed = TRUE]
  /\ ret' = NoCall
  /\ UNCHANGED <<activeStreams, killTimeout, stopRecorded, started>>

\* Variant: killTimeout is one variable of the module, so any 'close' clears
\* whichever grace timer is armed.
Close_SharedKillTimeout(s, k, code) ==
  LET out == OnClose(streams[s], k, code) IN
  /\ procs[s][k].alive
  /\ "SIGKILL" \in procs[s][k].sigs => code # 0
  /\ out.arm => Len(procs[s]) < MaxSpawns
  /\ streams' = [streams EXCEPT ![s] = out.st]
  /\ procs' = [procs EXCEPT ![s][k] =
                 [@ EXCEPT !.alive = FALSE, !.progressed = FALSE,
                           !.rtimer = IF out.arm THEN "armed" ELSE @]]
  /\ killTimeout' = [x \in DOMAIN killTimeout |->
                       IF killTimeout[x].state = "armed"
                         THEN [killTimeout[x] EXCEPT !.state = "cleared"]
                         ELSE killTimeout[x]]
  /\ ret' = NoCall
  /\ UNCHANGED <<activeStreams, stopRecorded, started>>

\* 'close' of process k of StreamState s with exit code `code`: the handler
\* spawnFfmpeg registered, then the listener stopStream registered
Close(s, k, code) ==
  LET out == OnClose(streams[s], k, code) IN
  /\ procs[s][k].alive
  /\ "SIGKILL" \in procs[s][k].sigs => code # 0
  /\ out.arm => Len(procs[s]) < MaxSpawns
  /\ streams' = [streams EXCEPT ![s] = out.st]
  /\ procs' = [procs EXCEPT ![s][k] =
                 [@ EXCEPT !.alive = FALSE, !.progressed = FALSE,
                           !.rtimer = IF out.arm THEN "armed" ELSE @]]
  /\ killTimeout' = [killTimeout EXCEPT ![s] =
                       IF @.on = k /\ @.state = "armed"
                         THEN [@ EXCEPT !.state = "cleared"] ELSE @]
  /\ ret' = NoCall
  /\ UNCHANGED <<activeStreams, stopRecorded, started>>

\* the reconnect timer armed by the 'close' of process k fires
ReconnectTimerFire(s, k) ==
  /\ procs[s][k].rtimer = "armed"
  /\ IF TimerRespawns(streams[s])
       THEN /\ streams' = [streams EXCEPT ![s] = SpawnFfmpeg(@, Len(procs[s]) + 1)]
            /\ procs' = [procs EXCEPT ![s] =
                           Append([@ EXCEPT ![k].rtimer = "none"], NewProc)]
       ELSE /\ streams' = streams
            /\ procs' = [procs EXCEPT ![s][k].rtimer = "none"]
  /\ ret' = NoCall
  /\ UNCHANGED <<activeStreams, killTimeout, stopRecorded, started>>

StopStreamFalse(id) ==
  /\ ~StopApplies(id)
  /\ ret' = [op |-> "stopStream", id |-> id, value |-> FALSE]
  /\ UNCHANGED <<activeStreams, streams, procs, killTimeout, stopRecorded, started>>

\* what stopStream does to the stream when it applies
StopEffects(id) ==
  LET s  == activeStreams[id]
      rt == streams[s].reconnectTimer
      k  == streams[s].process
      ps1 == IF rt # 0 THEN [procs[s] EXCEPT ![rt] = ClearTimeout(@)] ELSE procs[s]
  IN
  /\ StopApplies(id)
  /\ streams' = [streams EXCEPT ![s].status = "stopped", ![s].reconnectTimer = 0]
  /\ stopRecorded' = [stopRecorded EXCEPT ![s] = TRUE]
  /\ IF Killable(s)
       THEN /\ procs' = [procs EXCEPT ![s] = [ps1 EXCEPT ![k] = Kill(@, StopSignal)]]
            /\ killTimeout' = [killTimeout EXCEPT ![s] = [state |-> "armed", on |-> k]]
       ELSE /\ procs' = [procs EXCEPT ![s] = ps1]
            /\ killTimeout' = killTimeout
  /\ ret' = [op |-> "stopStream", id |-> id, value |-> TRUE]

\* Variant: a stopped stream is dropped from the registry.
StopStreamTrue_Deletes(id) ==
  /\ StopEffects(id)
  /\ activeStreams' = [activeStreams EXCEPT ![id] = 0]
  /\ UNCHANGED started

StopStreamTrue(id) ==
  /\ StopEffects(id)
  /\ UNCHANGED <<activeStreams, started>>

StopStream(id) == StopStreamFalse(id) \/ StopStreamTrue(id)

\* the grace timer of StreamState s fires: stream.process.kill('SIGKILL')
GraceTimerFire(s) ==
  /\ killTimeout[s].state = "armed"
  /\ killTimeout' = [killTimeout EXCEPT ![s].state = "fired"]
  /\ procs' = [procs EXCEPT ![s][streams[s].process] = Kill(@, "SIGKILL")]
  /\ ret' = NoCall
  /\ UNCHANGED <<activeStreams, streams, stopRecorded, started>>

\* the streams stopAllStreams acts on
ShutsDown(s) ==
  /\ \E id \in Ids : activeStreams[id] = s
  /\ streams[s].status \in {"running", "reconnecting"}

StopAllStreams ==
  /\ streams' = [s \in DOMAIN streams |->
                   IF ShutsDown(s) THEN [streams[s] EXCEPT !.status = "stopped"]
                                   ELSE streams[s]]
  /\ procs' = [s \in DOMAIN procs |->
                 IF ShutsDown(s)
                   THEN LET rt  == streams[s].reconnectTimer
                            k   == streams[s].process
                            ps1 == IF rt # 0 THEN [procs[s] EXCEPT ![rt] = ClearTimeout(@)]
                                             ELSE procs[s]
                        IN  IF Killable(s) THEN [ps1 EXCEPT ![k] = Kill(@, "SIGKILL")]
                                           ELSE ps1
                   ELSE procs[s]]
  /\ stopRecorded' = [s \in DOMAIN stopRecorded |-> stopRecorded[s] \/ ShutsDown(s)]
  /\ ret' = [op |-> "stopAllStreams"]
  /\ UNCHANGED <<activeStreams, killTimeout, started>>

\* a caller polls getStreamStatus(id)
QueryStatus(id) ==
  /\ ret' = [op |-> "getStreamStatus", id |-> id, value |-> GetStreamStatus(id),
             statsRef |-> StatsRef(id)]
  /\ UNCHANGED <<activeStreams, streams, procs, killTimeout, stopRecorded, started>>

\* the caller writes into the stats object getStreamStatus returned to it;
\* the write lands in the StreamState too if the object is shared with it
CallerWritesStats ==
  /\ ret.op = "getStreamStatus"
  /\ ret.value.status # "not_found"
  /\ ret.value.stats.loopCount # 0
  /\ ret' = [ret EXCEPT !.value.stats.loopCount = 0]
  /\ streams' = IF ret.statsRef = 0 THEN streams
                ELSE [streams EXCEPT ![ret.statsRef].stats.loopCount = 0]
  /\ UNCHANGED <<activeStreams, procs, killTimeout, stopRecorded, started>>

Next ==
  \/ \E id \in Ids, cfg \in Configs : StartStream(id, cfg)
  \/ \E s \in DOMAIN streams : \E k \in DOMAIN procs[s], t \in ProgressTimes :
       Progress(s, k, t)
  \/ \E s \in DOMAIN streams : \E k \in DOMAIN procs[s], code \in ExitCodes :
       Close(s, k, code)
  \/ \E s \in DOMAIN streams : \E k \in DOMAIN procs[s] : ReconnectTimerFire(s, k)
  \/ \E s \in DOMAIN streams : GraceTimerFire(s)
  \/ \E id \in Ids : StopStream(id)
  \/ StopAllStreams
  \/ \E id \in Ids : QueryStatus(id)
  \/ CallerWritesStats

Spec == Init /\ [][Next]_vars

TypeOK ==
  /\ activeStreams \in [Ids -> 0..MaxStates]
  /\ Len(streams) <= MaxStates
  /\ \A s \in DOMAIN streams : Len(procs[s]) <= MaxSpawns

----------------------------------------------------------------------------
(* Specifications of restricted environments *)

\* A permanently broken destination: every attempt ends with a nonzero exit,
\* no progress is ever reported and nobody stops the stream.  Exit events and
\* timers are delivered fairly.
StormNext ==
  \/ \E id \in Ids, cfg \in Configs : StartStream(id, cfg)
  \/ \E s \in DOMAIN streams : \E k \in DOMAIN procs[s] : Close(s, k, 1)
  \/ \E s \in DOMAIN streams : \E k \in DOMAIN procs[s] : ReconnectTimerFire(s, k)

SpecStorm ==
  /\ Init
  /\ [][StormNext]_vars
  /\ \A s \in 1..MaxStates :
        /\ WF_vars(s \in DOMAIN streams /\ \E k \in DOMAIN procs[s] : Close(s, k, 1))
        /\ WF_vars(s \in DOMAIN streams /\ \E k \in DOMAIN procs[s] : ReconnectTimerFire(s, k))

\* Intermittent blips: a process exits with a nonzero code only after it has
\* reported progress.  Everything else is as in Spec.
BlipClose(s, k, code) ==
  /\ code # 0 => procs[s][k].progressed
  /\ Close(s, k, code)

BlipsNext ==
  \/ \E id \in Ids, cfg \in Configs : StartStream(id, cfg)
  \/ \E s \in DOMAIN streams : \E k \in DOMAIN procs[s], t \in ProgressTimes :
       Progress(s, k, t)
  \/ \E s \in DOMAIN streams : \E k \in DOMAIN procs[s], code \in ExitCodes :
       BlipClose(s, k, code)
  \/ \E s \in DOMAIN streams : \E k \in DOMAIN procs[s] : ReconnectTimerFire(s, k)
  \/ \E s \in DOMAIN streams : GraceTimerFire(s)
  \/ \E id \in Ids : StopStream(id)
  \/ StopAllStreams

SpecBlips == Init /\ [][BlipsNext]_vars

----------------------------------------------------------------------------
(* Properties *)

Terminal == {"stopped", "completed", "error"}

\* the process the StreamState's handle refers to
Handle(s) == procs[s][streams[s].process]

TimerPending(s) == \E k \in DOMAIN procs[s] : procs[s][k].rtimer = "armed"

\* C1: once a stop (stopStream returning true, in 'running' or in
\* 'reconnecting', or stopAllStreams) has recorded 'stopped' on a StreamState,
\* no step ever spawns a process for it again, whatever the order of the stop
\* and the reconnect timer.
C1_NoSpawnAfterStop ==
  [][\A s \in DOMAIN streams :
       stopRecorded[s] => Len(procs'[s]) = Len(procs[s])]_vars

\* a stop was applied during the reconnect delay: the SIGINT went to a process
\* that had already exited, and the stream has failed at least once
C1_Witness ==
  \E s \in DOMAIN streams :
    /\ stopRecorded[s]
    /\ streams[s].status = "stopped"
    /\ streams[s].reconnectAttempts > 0
    /\ "SIGINT" \in Handle(s).late

\* C2: a nonzero exit of a 'running' stream whose reconnectAttempts equals
\* MAX_RECONNECT_ATTEMPTS sets the status to 'error' and arms no reconnect
\* timer; a stream in 'error' has no pending timer and gets no further process.
C2_ExhaustedGoesToError ==
  [][\A s \in DOMAIN streams :
       /\ \A k \in DOMAIN procs[s] :
            ( /\ Close(s, k, 1)
              /\ streams[s].status = "running"
              /\ streams[s].reconnectAttempts = MAX_RECONNECT_ATTEMPTS )
            => ( /\ streams'[s].status = "error"
                 /\ ~TimerPending(s)'
                 /\ Len(procs'[s]) = Len(procs[s]) )
       /\ streams[s].status = "error"
            => ( /\ ~TimerPending(s)'
                 /\ Len(procs'[s]) = Len(procs[s]) )]_vars

C2_Witness ==
  \E s \in DOMAIN streams :
    /\ streams[s].status = "error"
    /\ streams[s].reconnectAttempts = MAX_RECONNECT_ATTEMPTS
    /\ ~Handle(s).alive

\* C3: under SpecStorm every started stream eventually reaches 'error' having
\* spawned exactly MAX_RECONNECT_ATTEMPTS + 1 processes, and stays so.
C3_StormTerminates ==
  \A s \in 1..MaxStates :
    [](s \in DOMAIN streams
         => <>[]( /\ s \in DOMAIN streams
                  /\ streams[s].status = "error"
                  /\ Len(procs[s]) = MAX_RECONNECT_ATTEMPTS + 1 ))

C3_Witness ==
  \E s \in DOMAIN streams :
    /\ streams[s].status = "error"
    /\ Len(procs[s]) = MAX_RECONNECT_ATTEMPTS + 1
    /\ \A k \in DOMAIN procs[s] : ~procs[s][k].alive

\* C4: a progress observation sets reconnectAttempts to 0, and under SpecBlips
\* (every attempt reports progress before it exits nonzero) no stream ever has
\* status 'error'.
C4_ProgressResets ==
  [][/\ \A s \in DOMAIN streams : \A k \in DOMAIN procs[s], t \in ProgressTimes :
          Progress(s, k, t) => streams'[s].reconnectAttempts = 0
     /\ \A s \in DOMAIN streams' : streams'[s].status # "error"]_vars

\* a stream that has failed more often than the limit and is running again
C4_Witness ==
  \E s \in DOMAIN streams :
    /\ Len(procs[s]) > MAX_RECONNECT_ATTEMPTS + 1
    /\ streams[s].status = "running"
    /\ Handle(s).progressed

\* C5: 'stopped', 'completed' and 'error' are terminal: no step changes the
\* status of a StreamState that has one of them.
C5_TerminalStatus ==
  [][\A s \in DOMAIN streams :
       streams[s].status \in Terminal => streams'[s].status = streams[s].status]_vars

\* a stopped stream whose in-flight process exited after the stop
C5_Witness ==
  \E s \in DOMAIN streams :
    /\ streams[s].status = "stopped"
    /\ "SIGINT" \in Handle(s).sigs
    /\ ~Handle(s).alive

\* C6: stopStream(id) returns true exactly when id is known and its status is
\* 'running' or 'reconnecting', and then the status is 'stopped'; otherwise it
\* returns false and changes neither the registry nor any stream, process or
\* timer; a stopStream(id) directly after a stopStream(id) returns false and
\* changes nothing.
C6_StopStreamResult ==
  [][\A id \in Ids :
       StopStream(id) =>
         LET s       == activeStreams[id]
             applies == s # 0 /\ streams[s].status \in {"running", "reconnecting"}
         IN  /\ ret'.value = applies
             /\ applies => streams'[s].status = "stopped"
             /\ ~applies => UNCHANGED <<activeStreams, streams, procs, killTimeout>>
             /\ (ret.op = "stopStream" /\ ret.id = id)
                  => ( /\ ret'.value = FALSE
                       /\ UNCHANGED <<activeStreams, streams, procs, killTimeout>> )]_vars

\* a stopStream on a stream that a stop had already stopped has returned false
C6_Witness ==
  /\ ret.op = "stopStream"
  /\ ret.value = FALSE
  /\ activeStreams[ret.id] # 0
  /\ streams[activeStreams[ret.id]].status = "stopped"
  /\ stopRecorded[activeStreams[ret.id]]

NotFound == [ status |-> "not_found", stats |-> [x \in {} |-> 0] ]

\* C7: getStreamStatus(id) is { status: 'not_found', stats: {} } exactly for the
\* ids never passed to startStream, and a registry entry is never removed.
C7_NotFoundIffNeverStarted ==
  \A id \in Ids :
    /\ (GetStreamStatus(id) = NotFound) <=> (id \notin started)
    /\ (GetStreamStatus(id).status = "not_found") <=> (id \notin started)
    /\ (ret.op = "getStreamStatus" /\ ret.id = id)
         => ((ret.value.status = "not_found") <=> (id \notin started))

\* a poll of a stream that has exhausted its retries
C7_Witness ==
  /\ ret.op = "getStreamStatus"
  /\ ret.id \in started
  /\ ret.value.status = "error"

\* what getStreamStatus must report for a known id
ViewOK(id) ==
  LET stream == streams[activeStreams[id]]
      r      == GetStreamStatus(id)
  IN  /\ r.status # "reconnecting"
      /\ stream.status = "reconnecting" => (r.status = "running" /\ r.reconnecting = TRUE)
      /\ stream.status # "reconnecting" => (r.status = stream.status /\ r.reconnecting = FALSE)
      /\ r.reconnectAttempt = stream.reconnectAttempts
      /\ r.stats = stream.stats

\* C8: for a known id getStreamStatus reports 'running' with reconnecting = true
\* exactly when the internal status is 'reconnecting', else the internal status
\* with reconnecting = false; reconnectAttempt is the internal counter; the
\* stats are a copy (a write to them by the caller does not reach the stream);
\* the query changes no state.
C8_StatusView ==
  [][/\ \A id \in Ids : activeStreams'[id] # 0 => ViewOK(id)'
     /\ \A id \in Ids :
          QueryStatus(id)
            => ( /\ ret'.value = GetStreamStatus(id)
                 /\ ret'.statsRef = 0
                 /\ UNCHANGED <<activeStreams, streams, procs, killTimeout>> )
     /\ CallerWritesStats => UNCHANGED <<activeStreams, streams, procs, killTimeout>>]_vars

\* a poll during the reconnect delay
C8_Witness ==
  /\ ret.op = "getStreamStatus"
  /\ ret.value.status = "running"
  /\ ret.value.reconnecting = TRUE
  /\ ret.value.reconnectAttempt > 0
  /\ streams[activeStreams[ret.id]].status = "reconnecting"

----------------------------------------------------------------------------
(* Fair delivery of events: every armed timer fires unless it is cleared, and *)
(* a process that was sent SIGKILL exits.                                    *)

KilledCloses(s) ==
  \E k \in DOMAIN procs[s] : "SIGKILL" \in procs[s][k].sigs /\ Close(s, k, 1)

Fairness ==
  \A s \in 1..MaxStates :
    /\ WF_vars(s \in DOMAIN streams /\ GraceTimerFire(s))
    /\ WF_vars(s \in DOMAIN streams /\ KilledCloses(s))
    /\ WF_vars(s \in DOMAIN streams /\ \E k \in DOMAIN procs[s] : ReconnectTimerFire(s, k))

\* Polls change nothing a timer or a process depends on: they are left out.
FairNext ==
  \/ \E id \in Ids, cfg \in Configs : StartStream(id, cfg)
  \/ \E s \in DOMAIN streams : \E k \in DOMAIN procs[s], t \in ProgressTimes :
       Progress(s, k, t)
  \/ \E s \in DOMAIN streams : \E k \in DOMAIN procs[s], code \in ExitCodes :
       Close(s, k, code)
  \/ \E s \in DOMAIN streams : \E k \in DOMAIN procs[s] : ReconnectTimerFire(s, k)
  \/ \E s \in DOMAIN streams : GraceTimerFire(s)
  \/ \E id \in Ids : StopStream(id)
  \/ StopAllStreams

SpecFair == Init /\ [][FairNext]_vars /\ Fairness

\* stopStream was applied to s while its process was alive
GracefulStop(s) ==
  /\ killTimeout[s].state # "none"
  /\ "SIGINT" \in procs[s][killTimeout[s].on].sigs

\* the signals kill() has been called with on process k of s
Requested(s, k) == procs[s][k].sigs \cup procs[s][k].late

\* C9: a stopStream that applies to a stream whose process is alive delivers
\* SIGINT at once, not SIGKILL, and arms the grace timer; on such a stream
\* SIGKILL is only ever requested by the grace timer firing while the process
\* has not exited; with fair timers and exits the process of a stopped stream
\* is eventually not alive.
C9_GracefulThenForced ==
  /\ [][\A s \in DOMAIN streams :
          /\ \A id \in Ids :
               ( /\ StopStreamTrue(id)
                 /\ activeStreams[id] = s
                 /\ streams[s].process # 0
                 /\ Handle(s).alive )
               => ( /\ "SIGINT" \in Handle(s)'.sigs
                    /\ "SIGKILL" \notin Requested(s, streams[s].process)'
                    /\ killTimeout'[s] = [state |-> "armed", on |-> streams[s].process] )
          /\ GracefulStop(s)
               => \A k \in DOMAIN procs[s] :
                    ("SIGKILL" \in Requested(s, k)' /\ "SIGKILL" \notin Requested(s, k))
                    => ( /\ GraceTimerFire(s)
                         /\ killTimeout[s].state = "armed"
                         /\ procs[s][k].alive )]_vars
  /\ \A s \in 1..MaxStates :
       [](s \in DOMAIN streams /\ stopRecorded[s]
            => <>(s \in DOMAIN streams /\ ~Handle(s).alive))

\* the grace timer fired on a process that had not exited, and SIGKILL ended it
C9_Witness ==
  \E s \in DOMAIN streams :
    /\ killTimeout[s].state = "fired"
    /\ {"SIGINT", "SIGKILL"} \subseteq Handle(s).sigs
    /\ ~Handle(s).alive

\* C10: the grace timer armed by stopStream is canceled once the process has
\* exited: no grace timer is armed for a process that is not alive, and the
\* grace timer never requests SIGKILL for a process that has exited.
C10_GraceTimerCanceled ==
  \A s \in DOMAIN streams :
    /\ killTimeout[s].state = "armed" => procs[s][killTimeout[s].on].alive
    /\ killTimeout[s].state = "fired"
         => "SIGKILL" \notin procs[s][killTimeout[s].on].late

\* every StreamState is finished and no reconnect timer is pending
AllQuiet ==
  \A s \in DOMAIN streams : streams[s].status \in Terminal /\ ~TimerPending(s)

\* C11: stopAllStreams leaves every stream that was 'running' or 'reconnecting'
\* in 'stopped' with no reconnect timer pending, its live process sent SIGKILL
\* and no SIGINT, and no grace timer armed; it leaves finished streams as they
\* were; afterwards no stream is unfinished and, until the next startStream,
\* no process is spawned.
C11_StopAllStopsEverything ==
  [][/\ StopAllStreams =>
          /\ \A s \in DOMAIN streams :
               IF streams[s].status \in {"running", "reconnecting"}
                 THEN /\ streams'[s].status = "stopped"
                      /\ ~TimerPending(s)'
                      /\ Handle(s).alive
                           => ( /\ "SIGKILL" \in Handle(s)'.sigs
                                /\ "SIGINT" \notin Handle(s)'.sigs )
                      /\ killTimeout'[s] = killTimeout[s]
                      /\ killTimeout'[s].state # "armed"
                 ELSE /\ streams'[s] = streams[s]
                      /\ procs'[s] = procs[s]
                      /\ killTimeout'[s] = killTimeout[s]
          /\ AllQuiet'
     /\ (AllQuiet /\ Len(streams') = Len(streams))
          => ( /\ AllQuiet'
               /\ \A s \in DOMAIN streams : Len(procs'[s]) = Len(procs[s]) )]_vars

\* C12: an exit with code 0 of a 'running' stream always gives 'completed',
\* arms no reconnect timer and leaves reconnectAttempts alone; and a status
\* becomes 'completed' in no other way.
C12_CompletedIffCleanExit ==
  [][/\ \A s \in DOMAIN streams :
          /\ \A k \in DOMAIN procs[s] :
               (Close(s, k, 0) /\ streams[s].status = "running")
               => ( /\ streams'[s].status = "completed"
                    /\ ~TimerPending(s)'
                    /\ Len(procs'[s]) = Len(procs[s])
                    /\ streams'[s].reconnectAttempts = streams[s].reconnectAttempts )
          /\ (streams[s].status # "completed" /\ streams'[s].status = "completed")
               => ( /\ streams[s].status = "running"
                    /\ \E k \in DOMAIN procs[s] : Close(s, k, 0) )
     /\ \A s \in DOMAIN streams' :
          s \notin DOMAIN streams => streams'[s].status # "completed"]_vars

\* a stream that completed after it had reconnected: the counter kept its value
C12_Witness ==
  \E s \in DOMAIN streams :
    /\ streams[s].status = "completed"
    /\ streams[s].reconnectAttempts > 0
    /\ Len(procs[s]) > 1

\* C13: for a registered 'running' stream with reconnectAttempts = n below the
\* limit, a nonzero exit makes getStreamStatus report 'running' with
\* reconnecting = true and reconnectAttempt = n + 1; the reconnect timer brings
\* it back, and when the current process of a stream nobody stopped reports
\* progress, getStreamStatus reports 'running', reconnecting = false and
\* reconnectAttempt = 0.
C13_ReconnectView ==
  [][\A id \in Ids :
       LET s == activeStreams[id] IN
       s # 0 =>
         /\ \A k \in DOMAIN procs[s] :
              ( /\ Close(s, k, 1)
                /\ streams[s].status = "running"
                /\ streams[s].reconnectAttempts < MAX_RECONNECT_ATTEMPTS )
              => ( /\ GetStreamStatus(id)'.status = "running"
                   /\ GetStreamStatus(id)'.reconnecting = TRUE
                   /\ GetStreamStatus(id)'.reconnectAttempt
                        = streams[s].reconnectAttempts + 1 )
         /\ \A k \in DOMAIN procs[s] :
              (ReconnectTimerFire(s, k) /\ streams[s].status = "reconnecting")
              => ( /\ GetStreamStatus(id)'.status = "running"
                   /\ GetStreamStatus(id)'.reconnecting = FALSE
                   /\ GetStreamStatus(id)'.reconnectAttempt
                        = streams[s].reconnectAttempts )
         /\ \A k \in DOMAIN procs[s], t \in ProgressTimes :
              ( /\ Progress(s, k, t)
                /\ k = streams[s].process
                /\ ~stopRecorded[s] )
              => ( /\ GetStreamStatus(id)'.status = "running"
                   /\ GetStreamStatus(id)'.reconnecting = FALSE
                   /\ GetStreamStatus(id)'.reconnectAttempt = 0 )]_vars

\* a poll after the stream reconnected and its new process reported progress
C13_Witness ==
  /\ ret.op = "getStreamStatus"
  /\ ret.value.status = "running"
  /\ ret.value.reconnecting = FALSE
  /\ ret.value.reconnectAttempt = 0
  /\ Len(procs[activeStreams[ret.id]]) > 1
  /\ Handle(activeStreams[ret.id]).progressed

----------------------------------------------------------------------------
(* buildFfmpegArgs *)

\* An optional config field is <<>> when the caller left it out and <<v>> when
\* it has the value v.  frameRate and bitrate hold a number or a string.
Absent == <<>>
Has(x) == x # <<>>
Val(x) == x[1]

Undefined == [kind |-> "undefined", n |-> 0, s |-> ""]
Num(n) == [kind |-> "num", n |-> n, s |-> ""]
Str(s) == [kind |-> "str", n |-> 0, s |-> s]

\* JavaScript truthiness of a field
TruthyNum(x) == Has(x) /\ Val(x) # 0
TruthyBool(x) == Has(x) /\ Val(x) = TRUE
TruthyStr(x) == Has(x) /\ Val(x) # ""
TruthyVal(x) ==
  \/ x.kind = "num" /\ x.n # 0
  \/ x.kind = "str" /\ x.s # ""

\* String(v) and `${v}` of a number or a string
StringOf(x) == IF x.kind = "num" THEN ToString(x.n) ELSE x.s

\* the file the callers stream
FilePath == "clip.mp4"

\* Variant: a finite loopCount takes precedence over loop.
LoopArgs_FiniteFirst(config) ==
  IF Has(config.loopCount) /\ Val(config.loopCount) > 1
    THEN <<"-stream_loop", ToString(Val(config.loopCount) - 1)>>
    ELSE IF TruthyBool(config.loop) \/ (Has(config.loopCount) /\ Val(config.loopCount) = -1)
           THEN <<"-stream_loop", "-1">>
           ELSE <<>>

\* Loop: -1 = infinite, 0 = no loop, N = loop N times
LoopArgs(config) ==
  IF TruthyBool(config.loop) \/ (Has(config.loopCount) /\ Val(config.loopCount) = -1)
    THEN <<"-stream_loop", "-1">>
    ELSE IF Has(config.loopCount) /\ Val(config.loopCount) > 1
           THEN <<"-stream_loop", ToString(Val(config.loopCount) - 1)>>
           ELSE <<>>

\* Trim start
SeekArgs(config) ==
  IF TruthyNum(config.startTime) /\ Val(config.startTime) > 0
    THEN <<"-ss", ToString(Val(config.startTime))>>
    ELSE <<>>

\* Variant: a finite loop count is not counted as looping.
IsLooping_InfiniteOnly(config) ==
  \/ TruthyBool(config.loop)
  \/ Has(config.loopCount) /\ Val(config.loopCount) = -1

IsLooping(config) ==
  \/ TruthyBool(config.loop)
  \/ Has(config.loopCount) /\ Val(config.loopCount) = -1
  \/ Has(config.loopCount) /\ Val(config.loopCount) > 1

\* Trim duration, input side
TrimArgs(config) ==
  IF /\ ~IsLooping(config)
     /\ TruthyNum(config.endTime)
     /\ Has(config.startTime)
     /\ Val(config.endTime) > Val(config.startTime)
    THEN <<"-t", ToString(Val(config.endTime) - Val(config.startTime))>>
    ELSE <<>>

resMap ==
  [r \in {"1080p", "720p", "480p"} |->
     CASE r = "1080p" -> "1920:1080" [] r = "720p" -> "1280:720" [] r = "480p" -> "854:480"]

ratioMap ==
  [r \in {"16:9", "9:16", "1:1", "4:3"} |->
     CASE r = "16:9" -> "16/9" [] r = "9:16" -> "9/16" [] r = "1:1" -> "1/1"
       [] r = "4:3" -> "4/3"]

\* the video filters, in the order they are pushed
Filters(config) ==
  (IF /\ TruthyStr(config.resolution) /\ Val(config.resolution) # "source"
      /\ Val(config.resolution) \in DOMAIN resMap
     THEN <<"scale=" \o resMap[Val(config.resolution)]>> ELSE <<>>)
  \o
  (IF /\ TruthyStr(config.aspectRatio) /\ Val(config.aspectRatio) # "source"
      /\ Val(config.aspectRatio) \in DOMAIN ratioMap
     THEN <<"setdar=" \o ratioMap[Val(config.aspectRatio)]>> ELSE <<>>)

RECURSIVE Join(_, _)
\* Array.prototype.join
Join(seq, sep) ==
  IF seq = <<>> THEN ""
  ELSE IF Len(seq) = 1 THEN seq[1]
  ELSE seq[1] \o sep \o Join(Tail(seq), sep)

FilterArgs(config) ==
  IF Len(Filters(config)) > 0 THEN <<"-vf", Join(Filters(config), ",")>> ELSE <<>>

RateArgs(config) ==
  IF TruthyVal(config.frameRate) /\ ~(config.frameRate.kind = "str" /\ config.frameRate.s = "source")
    THEN <<"-r", StringOf(config.frameRate)>>
    ELSE <<>>

\* the bitrate is a number whenever it is not 'auto'
BitrateArgs(config) ==
  IF TruthyVal(config.bitrate) /\ ~(config.bitrate.kind = "str" /\ config.bitrate.s = "auto")
    THEN <<"-b:v", StringOf(config.bitrate) \o "k",
           "-maxrate", StringOf(config.bitrate) \o "k",
           "-bufsize", ToString(config.bitrate.n * 2) \o "k">>
    ELSE <<"-b:v", "4500k", "-maxrate", "4500k", "-bufsize", "9000k">>

\* Output duration cap, minutes to seconds
DurationArgs(config) ==
  IF TruthyNum(config.duration) /\ Val(config.duration) > 0
    THEN <<"-t", ToString(Val(config.duration) * 60)>>
    ELSE <<>>

\* rtmpUrl is the text base, followed by "/" when slash is set;
\* replace(/\/$/, '') drops that one trailing slash
UrlText(u) == IF u.slash THEN u.base \o "/" ELSE u.base
StripSlash(u) == u.base

RtmpDest(config) ==
  IF TruthyStr(config.streamKey)
    THEN StripSlash(config.rtmpUrl) \o "/" \o Val(config.streamKey)
    ELSE UrlText(config.rtmpUrl)

BuildFfmpegArgs(filePath, config) ==
  <<"-re">>
  \o LoopArgs(config)
  \o SeekArgs(config)
  \o TrimArgs(config)
  \o <<"-i", filePath>>
  \o <<"-c:v", "libx264", "-preset", "veryfast", "-tune", "zerolatency">>
  \o FilterArgs(config)
  \o RateArgs(config)
  \o BitrateArgs(config)
  \o <<"-c:a", "aac", "-b:a", "128k", "-ar", "44100">>
  \o DurationArgs(config)
  \o <<"-f", "flv">>
  \o <<RtmpDest(config)>>

\* the configs the callers pass
ArgConfigs ==
  [ loop        : {Absent, <<TRUE>>, <<FALSE>>},
    loopCount   : {Absent, <<-1>>, <<0>>, <<1>>, <<2>>, <<3>>},
    startTime   : {Absent, <<0>>, <<10>>},
    endTime     : {Absent, <<0>>, <<5>>, <<45>>},
    duration    : {Absent, <<0>>, <<2>>},
    resolution  : {Absent, <<"1080p">>, <<"4k">>},
    aspectRatio : {<<"source">>, <<"16:9">>},
    frameRate   : {Undefined, Str("source"), Num(30)},
    bitrate     : {Str("auto"), Num(2500)},
    rtmpUrl     : {[base |-> "rtmp://x/live", slash |-> FALSE],
                   [base |-> "rtmp://x/live", slash |-> TRUE]},
    streamKey   : {Absent, <<"key">>} ]

\* a caller builds the arguments for a config
BuildArgs(config) ==
  /\ ret' = [op |-> "buildFfmpegArgs", config |-> config,
             value |-> BuildFfmpegArgs(FilePath, config)]
  /\ UNCHANGED <<activeStreams, streams, procs, killTimeout, stopRecorded, started>>

\* One call per run: the function reads no state, so a second call adds
\* nothing that a first call of another run does not show.
ArgsNext == ret = NoCall /\ \E config \in ArgConfigs : BuildArgs(config)

SpecArgs == Init /\ [][ArgsNext]_vars

\* the position of the first "-i" of an argument list
RECURSIVE InputAt(_)
InputAt(args) ==
  IF args = <<>> THEN 1
  ELSE IF Head(args) = "-i" THEN 1
  ELSE 1 + InputAt(Tail(args))

\* the positions of flag in an argument list
Positions(args, flag) == { i \in 1..Len(args) : args[i] = flag }

\* C14: for every config with looping in effect (loop true, loopCount = -1 or
\* loopCount > 1) buildFfmpegArgs puts no "-t" before "-i", whatever startTime
\* and endTime are; the "-t" of the duration cap comes after "-i".
C14_NoInputTrimWhenLooping ==
  ret.op = "buildFfmpegArgs" =>
    LET c == ret.config
        a == ret.value
        looping == \/ Has(c.loop) /\ Val(c.loop) = TRUE
                   \/ Has(c.loopCount) /\ (Val(c.loopCount) = -1 \/ Val(c.loopCount) > 1)
    IN  /\ Positions(a, "-i") # {}
        /\ looping => \A i \in Positions(a, "-t") : i > InputAt(a)
        /\ (Has(c.duration) /\ Val(c.duration) > 0)
             => \E i \in Positions(a, "-t") :
                  i > InputAt(a) /\ a[i + 1] = ToString(Val(c.duration) * 60)

\* a finite loop with a trim window and a duration cap: one "-t", after "-i"
C14_Witness ==
  /\ ret.op = "buildFfmpegArgs"
  /\ ret.config.loop = Absent
  /\ ret.config.loopCount = <<3>>
  /\ ret.config.startTime = <<10>>
  /\ ret.config.endTime = <<45>>
  /\ ret.config.duration = <<2>>
  /\ Cardinality(Positions(ret.value, "-t")) = 1

\* C15: buildFfmpegArgs emits exactly one "-stream_loop -1" when loop is true
\* or loopCount = -1, whatever else loopCount is; otherwise exactly one
\* "-stream_loop" with loopCount - 1 when loopCount > 1; otherwise none.
C15_LoopFlagPrecedence ==
  ret.op = "buildFfmpegArgs" =>
    LET c == ret.config
        a == ret.value
        at == Positions(a, "-stream_loop")
    IN  IF (Has(c.loop) /\ Val(c.loop) = TRUE) \/ (Has(c.loopCount) /\ Val(c.loopCount) = -1)
          THEN Cardinality(at) = 1 /\ \A i \in at : a[i + 1] = "-1"
          ELSE IF Has(c.loopCount) /\ Val(c.loopCount) > 1
                 THEN /\ Cardinality(at) = 1
                      /\ \A i \in at : a[i + 1] = ToString(Val(c.loopCount) - 1)
                 ELSE at = {}

\* loop set together with a finite loopCount: the infinite flag wins
C15_Witness ==
  /\ ret.op = "buildFfmpegArgs"
  /\ ret.config.loop = <<TRUE>>
  /\ ret.config.loopCount = <<3>>
  /\ \E i \in Positions(ret.value, "-stream_loop") : ret.value[i + 1] = "-1"

----------------------------------------------------------------------------
(* Properties of the stream state machine, continued *)

\* C16: a relaunch (the reconnect timer firing in 'reconnecting') changes only
\* the process handle and the status, to 'running': startedAt, config, stats
\* and reconnectAttempts stay, and so do the registry and the set of
\* StreamStates; reconnectAttempts only ever goes down in a progress step.
C16_RelaunchFrame ==
  [][\A s \in DOMAIN streams :
       /\ \A k \in DOMAIN procs[s] :
            (ReconnectTimerFire(s, k) /\ streams[s].status = "reconnecting")
            => ( /\ streams'[s] = [streams[s] EXCEPT !.process = Len(procs[s]) + 1,
                                                      !.status = "running"]
                 /\ Len(procs'[s]) = Len(procs[s]) + 1
                 /\ activeStreams' = activeStreams
                 /\ Len(streams') = Len(streams) )
       /\ streams'[s].reconnectAttempts < streams[s].reconnectAttempts
            => \E k \in DOMAIN procs[s], t \in ProgressTimes : Progress(s, k, t)]_vars

\* a relaunched stream that has not reported progress yet: the counter is kept
C16_Witness ==
  \E s \in DOMAIN streams :
    /\ streams[s].status = "running"
    /\ Len(procs[s]) > 1
    /\ Handle(s).alive
    /\ streams[s].reconnectAttempts > 0

\* nothing of StreamState s changes in the step
Same(s) ==
  /\ streams'[s] = streams[s]
  /\ procs'[s] = procs[s]
  /\ killTimeout'[s] = killTimeout[s]

\* C17: startStream(id), stopStream(id) and every exit, progress,
\* reconnect-timer and grace-timer event of one stream leave the state, the
\* processes and the timers of every other stream, and the registry entries
\* of every other id, unchanged.
C17_StreamsIndependent ==
  [][/\ \A id \in Ids, cfg \in Configs :
          StartStream(id, cfg)
            => ( /\ \A s \in DOMAIN streams : Same(s)
                 /\ \A other \in Ids \ {id} : activeStreams'[other] = activeStreams[other] )
     /\ \A id \in Ids :
          StopStream(id)
            => ( /\ \A s \in DOMAIN streams : s # activeStreams[id] => Same(s)
                 /\ activeStreams' = activeStreams )
     /\ \A u \in DOMAIN streams :
          ( \/ \E k \in DOMAIN procs[u], t \in ProgressTimes : Progress(u, k, t)
            \/ \E k \in DOMAIN procs[u], code \in ExitCodes : Close(u, k, code)
            \/ \E k \in DOMAIN procs[u] : ReconnectTimerFire(u, k)
            \/ GraceTimerFire(u) )
          => ( /\ \A s \in DOMAIN streams : s # u => Same(s)
               /\ activeStreams' = activeStreams )]_vars

\* two registered streams: one exits while the grace timer of the other is armed
C17_Witness ==
  \E id1, id2 \in Ids :
    /\ id1 # id2
    /\ activeStreams[id1] # 0
    /\ activeStreams[id2] # 0
    /\ streams[activeStreams[id1]].status = "reconnecting"
    /\ killTimeout[activeStreams[id2]].state = "armed"
    /\ Handle(activeStreams[id2]).alive

LiveProcs(s) == { k \in DOMAIN procs[s] : procs[s][k].alive }

\* C18: a StreamState has at most one live process, which is its handle, and
\* only while its status is 'running' or 'stopped'; in 'reconnecting',
\* 'completed' and 'error' it has none.
C18_OneLiveProcess ==
  \A s \in DOMAIN streams :
    /\ Cardinality(LiveProcs(s)) <= 1
    /\ LiveProcs(s) \subseteq {streams[s].process}
    /\ LiveProcs(s) # {} => streams[s].status \in {"running", "stopped"}
    /\ streams[s].status \in {"reconnecting", "completed", "error"} => LiveProcs(s) = {}

\* a stopped stream whose relaunched process is still alive
C18_Witness ==
  \E s \in DOMAIN streams :
    /\ streams[s].status = "stopped"
    /\ Len(procs[s]) > 1
    /\ LiveProcs(s) = {streams[s].process}

\* C19: a StreamState has a pending reconnect timer exactly while its status
\* is 'reconnecting', and never more than one; with fair timers a stream in
\* 'reconnecting' eventually is 'running' or 'stopped'.
C19_TimerIffReconnecting ==
  /\ [](\A s \in DOMAIN streams :
          /\ TimerPending(s) <=> streams[s].status = "reconnecting"
          /\ Cardinality({k \in DOMAIN procs[s] : procs[s][k].rtimer = "armed"}) <= 1)
  /\ \A s \in 1..MaxStates :
       [](s \in DOMAIN streams /\ streams[s].status = "reconnecting"
            => <>(s \in DOMAIN streams /\ streams[s].status \in {"running", "stopped"}))

\* the last retry of a stream is pending
C19_Witness ==
  \E s \in DOMAIN streams :
    /\ streams[s].status = "reconnecting"
    /\ streams[s].reconnectAttempts = MAX_RECONNECT_ATTEMPTS
    /\ procs[s][streams[s].reconnectTimer].rtimer = "armed"

\* C20: every live process is the handle of the StreamState registered under
\* some id, and every pending reconnect timer belongs to a registered
\* StreamState, so that stopStream and stopAllStreams can reach them.
C20_NothingUnreachable ==
  \A s \in DOMAIN streams :
    (LiveProcs(s) # {} \/ TimerPending(s))
      => ( /\ \E id \in Ids : activeStreams[id] = s
           /\ LiveProcs(s) \subseteq {streams[s].process} )
====
